---------------------------- MODULE Spec2Model ----------------------------
(***************************************************************************)
(* A model of the subtitle enrichment pipeline of plex-subtitles-extension *)
(*                                                                         *)
(*   enrich_srt.py      get_ai_analysis, enrich_subtitles, __main__        *)
(*   word_frequency.py  build_word_frequency_corpus,                       *)
(*                      map_frequency_to_scores, main                      *)
(*                                                                         *)
(* Texts are TLA+ strings; a character is a string of length one.  JSON    *)
(* values are tagged records:                                              *)
(*   [t |-> "null"]  [t |-> "bool", b |-> ..]  [t |-> "num", n |-> ..]    *)
(*   [t |-> "str", s |-> ..]  [t |-> "list", items |-> <<..>>]            *)
(*   [t |-> "obj", pairs |-> << [k |-> .., v |-> ..], .. >>]              *)
(* An object keeps its pairs in insertion order, as a Python dict does.    *)
(***************************************************************************)
EXTENDS Integers, Sequences, FiniteSets, TLC

(***************************************************************************)
(* Text operations used by get_ai_analysis.                                *)
(***************************************************************************)
CharAt(s, i) == SubSeq(s, i, i)

Whitespace == {" ", "\n", "\t", "\r"}

Digits == {"0", "1", "2", "3", "4", "5", "6", "7", "8", "9"}

\* s[i-1:j] of Python: the slice is cut at the end of s
Slice(s, i, j) == SubSeq(s, i, IF j > Len(s) THEN Len(s) ELSE j)

startswith(s, p) == Len(s) >= Len(p) /\ SubSeq(s, 1, Len(p)) = p

endswith(s, p) == Len(s) >= Len(p) /\ SubSeq(s, Len(s) - Len(p) + 1, Len(s)) = p

removeprefix(s, p) == IF startswith(s, p) THEN SubSeq(s, Len(p) + 1, Len(s)) ELSE s

removesuffix(s, p) == IF endswith(s, p) THEN SubSeq(s, 1, Len(s) - Len(p)) ELSE s

RECURSIVE lstrip(_)
lstrip(s) ==
    IF Len(s) > 0 /\ CharAt(s, 1) \in Whitespace
    THEN lstrip(SubSeq(s, 2, Len(s)))
    ELSE s

RECURSIVE rstrip(_)
rstrip(s) ==
    IF Len(s) > 0 /\ CharAt(s, Len(s)) \in Whitespace
    THEN rstrip(SubSeq(s, 1, Len(s) - 1))
    ELSE s

strip(s) == rstrip(lstrip(s))

\* first index >= i of s that holds no whitespace (Len(s) + 1 at the end)
RECURSIVE SkipWs(_, _)
SkipWs(s, i) ==
    IF i <= Len(s) /\ CharAt(s, i) \in Whitespace THEN SkipWs(s, i + 1) ELSE i

\* the pattern ,\s*(\]|\}) matches at c
MatchesAt(s, c) ==
    /\ CharAt(s, c) = ","
    /\ SkipWs(s, c + 1) <= Len(s)
    /\ CharAt(s, SkipWs(s, c + 1)) \in {"]", "}"}

\* re.sub(r',\s*(\]|\})', r'\1', s): one left-to-right pass over s, from
\* the leftmost match at or after i to the next one behind it
RECURSIVE re_sub_from(_, _)
re_sub_from(s, i) ==
    LET starts == { c \in i..Len(s) : MatchesAt(s, c) }
    IN  IF starts = {} THEN SubSeq(s, i, Len(s))
        ELSE LET c == CHOOSE m \in starts : \A n \in starts : m <= n
                 j == SkipWs(s, c + 1)
             IN  SubSeq(s, i, c - 1) \o CharAt(s, j) \o re_sub_from(s, j + 1)

\* the response left as it came, without the pass over the commas
re_sub_none(s) == s

re_sub(s) == re_sub_from(s, 1)


(***************************************************************************)
(* json.loads.  The decoder of the standard library, restricted to the     *)
(* model's alphabet: integers are the only numbers, and the escapes of a   *)
(* string are \" \\ \/ \n \t \r.                                           *)
(***************************************************************************)
JNull == [t |-> "null"]
JBool(b) == [t |-> "bool", b |-> b]
JNum(n) == [t |-> "num", n |-> n]
JStr(s) == [t |-> "str", s |-> s]
JList(items) == [t |-> "list", items |-> items]
JObj(pairs) == [t |-> "obj", pairs |-> pairs]

DecodeFail == [ok |-> FALSE, val |-> JNull, pos |-> 0]
DecodeOk(v, p) == [ok |-> TRUE, val |-> v, pos |-> p]

DigitVal(c) ==
    CASE c = "0" -> 0 [] c = "1" -> 1 [] c = "2" -> 2 [] c = "3" -> 3
      [] c = "4" -> 4 [] c = "5" -> 5 [] c = "6" -> 6 [] c = "7" -> 7
      [] c = "8" -> 8 [] c = "9" -> 9

\* dict[k] = v: a key already present keeps its place and takes the new value
dict_set(pairs, k, v) ==
    IF \E i \in 1..Len(pairs) : pairs[i].k = k
    THEN [i \in 1..Len(pairs) |->
             IF pairs[i].k = k THEN [k |-> k, v |-> v] ELSE pairs[i]]
    ELSE Append(pairs, [k |-> k, v |-> v])

\* the string whose opening quote is at i - 1; acc holds the characters read
RECURSIVE scanstring(_, _, _)
scanstring(s, i, acc) ==
    IF i > Len(s) THEN DecodeFail
    ELSE LET c == CharAt(s, i)
         IN  IF c = "\"" THEN DecodeOk(JStr(acc), i + 1)
             ELSE IF c = "\\"
             THEN IF i + 1 > Len(s) THEN DecodeFail
                  ELSE LET e == CharAt(s, i + 1)
                       IN  IF e \in {"\"", "\\", "/"}
                           THEN scanstring(s, i + 2, acc \o e)
                           ELSE IF e = "n" THEN scanstring(s, i + 2, acc \o "\n")
                           ELSE IF e = "t" THEN scanstring(s, i + 2, acc \o "\t")
                           ELSE IF e = "r" THEN scanstring(s, i + 2, acc \o "\r")
                           ELSE DecodeFail
             ELSE IF c \in {"\n", "\t", "\r"} THEN DecodeFail
             ELSE scanstring(s, i + 1, acc \o c)

\* the digits from i on, most significant first
RECURSIVE scandigits(_, _, _)
scandigits(s, i, acc) ==
    IF i <= Len(s) /\ CharAt(s, i) \in Digits
    THEN scandigits(s, i + 1, 10 * acc + DigitVal(CharAt(s, i)))
    ELSE [n |-> acc, pos |-> i]

\* -?(0|[1-9]\d*)
scannumber(s, i) ==
    LET neg == CharAt(s, i) = "-"
        j   == IF neg THEN i + 1 ELSE i
    IN  IF j > Len(s) \/ CharAt(s, j) \notin Digits THEN DecodeFail
        ELSE IF CharAt(s, j) = "0" THEN DecodeOk(JNum(0), j + 1)
        ELSE LET d == scandigits(s, j, 0)
             IN  DecodeOk(JNum(IF neg THEN 0 - d.n ELSE d.n), d.pos)

RECURSIVE scan_once(_, _), JSONArray(_, _, _), JSONObject(_, _, _)
scan_once(s, i) ==
    IF i > Len(s) THEN DecodeFail
    ELSE LET c == CharAt(s, i)
         IN  IF c = "\"" THEN scanstring(s, i + 1, "")
             ELSE IF c = "{"
             THEN LET j == SkipWs(s, i + 1)
                  IN  IF j > Len(s) THEN DecodeFail
                      ELSE IF CharAt(s, j) = "}" THEN DecodeOk(JObj(<<>>), j + 1)
                      ELSE IF CharAt(s, j) # "\"" THEN DecodeFail
                      ELSE JSONObject(s, j, <<>>)
             ELSE IF c = "["
             THEN LET j == SkipWs(s, i + 1)
                  IN  IF j > Len(s) THEN DecodeFail
                      ELSE IF CharAt(s, j) = "]" THEN DecodeOk(JList(<<>>), j + 1)
                      ELSE JSONArray(s, j, <<>>)
             ELSE IF Slice(s, i, i + 3) = "null" THEN DecodeOk(JNull, i + 4)
             ELSE IF Slice(s, i, i + 3) = "true" THEN DecodeOk(JBool(TRUE), i + 4)
             ELSE IF Slice(s, i, i + 4) = "false" THEN DecodeOk(JBool(FALSE), i + 5)
             ELSE IF c = "-" \/ c \in Digits THEN scannumber(s, i)
             ELSE DecodeFail

\* the items of an array from the value at i on
JSONArray(s, i, acc) ==
    LET r == scan_once(s, i)
    IN  IF ~r.ok THEN DecodeFail
        ELSE LET j == SkipWs(s, r.pos)
             IN  IF j > Len(s) THEN DecodeFail
                 ELSE IF CharAt(s, j) = "]"
                 THEN DecodeOk(JList(Append(acc, r.val)), j + 1)
                 ELSE IF CharAt(s, j) = ","
                 THEN JSONArray(s, SkipWs(s, j + 1), Append(acc, r.val))
                 ELSE DecodeFail

\* the pairs of an object from the key whose opening quote is at i on
JSONObject(s, i, acc) ==
    LET key == scanstring(s, i + 1, "")
    IN  IF ~key.ok THEN DecodeFail
        ELSE LET c == SkipWs(s, key.pos)
             IN  IF c > Len(s) \/ CharAt(s, c) # ":" THEN DecodeFail
                 ELSE LET r == scan_once(s, SkipWs(s, c + 1))
                      IN  IF ~r.ok THEN DecodeFail
                          ELSE LET j == SkipWs(s, r.pos)
                                   pairs == dict_set(acc, key.val.s, r.val)
                               IN  IF j > Len(s) THEN DecodeFail
                                   ELSE IF CharAt(s, j) = "}"
                                   THEN DecodeOk(JObj(pairs), j + 1)
                                   ELSE IF CharAt(s, j) = ","
                                   THEN LET n == SkipWs(s, j + 1)
                                        IN  IF n > Len(s) \/ CharAt(s, n) # "\""
                                            THEN DecodeFail
                                            ELSE JSONObject(s, n, pairs)
                                   ELSE DecodeFail

\* json.loads(s): ok is FALSE where the library raises JSONDecodeError
json_loads(s) ==
    LET r == scan_once(s, SkipWs(s, 1))
    IN  IF r.ok /\ SkipWs(s, r.pos) = Len(s) + 1
        THEN [ok |-> TRUE, val |-> r.val]
        ELSE [ok |-> FALSE, val |-> JNull]

(***************************************************************************)
(* Configuration of enrich_srt.py and the bounds of the model.             *)
(***************************************************************************)
TIMEOUT_SECONDS == 45

\* a run reads at most MaxFiles subtitle files and issues at most MaxCalls
\* backend calls; MaxCap is the largest line cap tried for MAX_LINES
MaxFiles == 2
MaxCalls == 2
MaxCap == 1

\* seconds a backend call can take: quick, exactly the deadline, LateBy later
QuickSeconds == 1
LateBy == 15
Durations == {QuickSeconds, TIMEOUT_SECONDS, TIMEOUT_SECONDS + LateBy}

\* The lexer admits only ASCII without the backquote: "^" stands for the
\* backquote, and N H Z J stand for the Chinese characters of the cues.
ChineseChars == {"N", "H", "Z", "J"}

\* the entries os.listdir can return, in the order sorted() gives them
FileOrder == <<"a.srt", "a.txt", "b.chi.srt", "notes.md">>

\* cue texts as srt.parse yields them; index i of every file reads text i
CueTexts == <<"NH", " ZJ\n", "NHZ", "J 3">>

\* timedelta(seconds, microseconds) of cue i of the file ranked r
CueOf(r, i) ==
    [start   |-> [seconds |-> 10 * r + 2 * i, microseconds |-> 500000],
     end     |-> [seconds |-> 10 * r + 2 * i + 1, microseconds |-> 250000],
     content |-> CueTexts[((i - 1) % Len(CueTexts)) + 1]]

FileRank(f) == CHOOSE r \in 1..Len(FileOrder) : FileOrder[r] = f

\* timedelta.total_seconds(), in microseconds to stay in the integers
total_seconds(td) == td.seconds * 1000000 + td.microseconds

(***************************************************************************)
(* normalize_title and infer_media_name_from_path, over the file names of  *)
(* FileOrder (lower case, no play marker, no Plex fallback title).         *)
(***************************************************************************)
\* re.sub(r':', ' -', s)
RECURSIVE sub_colons(_)
sub_colons(s) ==
    IF Len(s) = 0 THEN ""
    ELSE (IF CharAt(s, 1) = ":" THEN " -" ELSE CharAt(s, 1))
         \o sub_colons(SubSeq(s, 2, Len(s)))

\* re.sub(r'\s+', '_', s): a run of whitespace becomes one underscore
RECURSIVE sub_spaces(_)
sub_spaces(s) ==
    IF Len(s) = 0 THEN ""
    ELSE IF CharAt(s, 1) \in Whitespace
    THEN "_" \o sub_spaces(lstrip(s))
    ELSE CharAt(s, 1) \o sub_spaces(SubSeq(s, 2, Len(s)))

\* the three character classes replaced or removed one character at a time
RECURSIVE sub_chars(_)
sub_chars(s) ==
    IF Len(s) = 0 THEN ""
    ELSE LET c == CharAt(s, 1)
         IN  (IF c \in ChineseChars THEN "."
              ELSE IF c = "#" THEN ""
              ELSE IF c \in {"'", "&", ","} THEN "_"
              ELSE c) \o sub_chars(SubSeq(s, 2, Len(s)))

normalize_title(title) == sub_chars(sub_spaces(sub_colons(strip(title))))

infer_media_name_from_path(path) ==
    LET n1 == removesuffix(path, ".chi.srt")
        n2 == removesuffix(n1, ".srt")
        n3 == removesuffix(n2, ".txt")
    IN  normalize_title(strip(n3))

output_path_of(media_name) == media_name \o ".enriched.json"

(***************************************************************************)
(* get_pinyin: lazy_pinyin gives one syllable per Chinese character and    *)
(* keeps a run of other characters as one item; the items are joined by a  *)
(* blank.  Tone marks are outside the alphabet.                            *)
(***************************************************************************)
Syllable(c) ==
    CASE c = "N" -> "ni" [] c = "H" -> "hao" [] c = "Z" -> "zai" [] c = "J" -> "jian"

RECURSIVE lazy_pinyin(_, _)
lazy_pinyin(word, run) ==
    IF Len(word) = 0 THEN (IF run = "" THEN <<>> ELSE <<run>>)
    ELSE LET c == CharAt(word, 1)
             rest == SubSeq(word, 2, Len(word))
         IN  IF c \in ChineseChars
             THEN (IF run = "" THEN <<>> ELSE <<run>>)
                  \o <<Syllable(c)>> \o lazy_pinyin(rest, "")
             ELSE lazy_pinyin(rest, run \o c)

RECURSIVE join(_, _)
join(sep, items) ==
    IF Len(items) = 0 THEN ""
    ELSE IF Len(items) = 1 THEN items[1]
    ELSE items[1] \o sep \o join(sep, Tail(items))

get_pinyin(word) == join(" ", lazy_pinyin(word, ""))

(***************************************************************************)
(* The backend.  A reply is what the service sends for one prompt: text,   *)
(* an empty message content, or a transport failure.                       *)
(***************************************************************************)
RecordText(tr, words, ex) ==
    "{\"translation\":\"" \o tr \o "\",\"words\":" \o words
        \o ",\"explanation\":\"" \o ex \o "\"}"

WordsOf(line) == "[{\"word\":\"" \o line \o "\",\"meaning\":\"m\"}]"

\* the structured text the prompt asks for, about the line of the prompt
GoodText(line) == RecordText("t " \o line, WordsOf(line), "e")

\* response texts the service can send for the prompt built from line
ResponseTexts(line) ==
    { GoodText(line),
      " " \o GoodText(line) \o "\n",
      "^^^json\n" \o GoodText(line) \o "\n^^^",
      "^^^\n" \o GoodText(line) \o "\n^^^",
      "{\"translation\":\"t " \o line \o "\",\"words\":" \o WordsOf(line)
          \o ",\"explanation\":\"e\",}",
      RecordText("u " \o line, "[{\"meaning\":\"m\"}, {\"word\":\"\"}]", "e"),
      RecordText("see [a, ]", "[]", "x, }"),
      RecordText("t", "null", "e"),
      RecordText("t", "[\"" \o line \o "\"]", "e"),
      "{}",
      "[]",
      "null",
      "\"" \o line \o "\"",
      "7",
      "Sorry, I cannot help.",
      "" }

Replies(line) ==
    { [kind |-> "text", text |-> t] : t \in ResponseTexts(line) }
    \cup { [kind |-> k, text |-> ""] : k \in {"none", "conn_error", "http_error"} }

\* build_prompt: the prompt embeds the media name and the line
build_prompt(text, media_name) == [media_name |-> media_name, text |-> text]

\* call_api handing an empty message content on as None
call_api_none(service, reply) ==
    IF reply.kind \in {"conn_error", "http_error"}
    THEN [exc |-> TRUE, none |-> FALSE, val |-> ""]
    ELSE IF reply.kind = "none"
    THEN [exc |-> FALSE, none |-> TRUE, val |-> ""]
    ELSE [exc |-> FALSE, none |-> FALSE, val |-> strip(reply.text)]

\* call_api run by the worker: exc where it raises, none where it returns None
call_api(service, reply) ==
    IF reply.kind \in {"conn_error", "http_error"}
    THEN [exc |-> TRUE, none |-> FALSE, val |-> ""]
    ELSE IF reply.kind = "none"
    THEN IF service = "openai"
         THEN [exc |-> FALSE, none |-> FALSE, val |-> ""]
         ELSE [exc |-> TRUE, none |-> FALSE, val |-> ""]
    ELSE [exc |-> FALSE, none |-> FALSE, val |-> strip(reply.text)]

NoFuture == [exc |-> FALSE, none |-> FALSE, val |-> ""]

(***************************************************************************)
(* get_ai_analysis after the worker's result is in: clean-up and decoding. *)
(***************************************************************************)
EmptyAnalysis ==
    JObj(<< [k |-> "translation", v |-> JStr("")],
            [k |-> "words", v |-> JList(<<>>)],
            [k |-> "explanation", v |-> JStr("")] >>)

\* lines 294-297: the fence is looked for as ```json or as four backquotes
strip_fence(content) ==
    IF startswith(content, "^^^json")
    THEN strip(removesuffix(removeprefix(content, "^^^json"), "^^^"))
    ELSE IF startswith(content, "^^^^")
    THEN strip(removesuffix(removeprefix(content, "^^^^"), "^^^"))
    ELSE content

\* lines 292-300
clean_content(content) == re_sub(strip_fence(content))

\* lines 281-309 once the future is done: what get_ai_analysis returns, or
\* raised where an exception leaves it
get_ai_result(fut) ==
    IF fut.exc
    THEN [raised |-> FALSE, how |-> "api_error", data |-> EmptyAnalysis]
    ELSE IF fut.none
    THEN [raised |-> TRUE, how |-> "raised", data |-> JNull]
    ELSE LET r == json_loads(clean_content(fut.val))
         IN  IF r.ok
             THEN [raised |-> FALSE, how |-> "decoded", data |-> r.val]
             ELSE [raised |-> FALSE, how |-> "decode_error", data |-> EmptyAnalysis]

(***************************************************************************)
(* The body of the loop of enrich_subtitles, lines 357-388.                *)
(***************************************************************************)
HasKey(obj, key) == \E i \in 1..Len(obj.pairs) : obj.pairs[i].k = key

\* dict.get(key, default)
dict_get(obj, key, default) ==
    IF HasKey(obj, key)
    THEN obj.pairs[CHOOSE i \in 1..Len(obj.pairs) : obj.pairs[i].k = key].v
    ELSE default

\* what "for entry in v" iterates over; ok is FALSE where v is not iterable
iterate(v) ==
    IF v.t = "list" THEN [ok |-> TRUE, items |-> v.items]
    ELSE IF v.t = "str"
    THEN [ok |-> TRUE, items |-> [i \in 1..Len(v.s) |-> JStr(CharAt(v.s, i))]]
    ELSE IF v.t = "obj"
    THEN [ok |-> TRUE, items |-> [i \in 1..Len(v.pairs) |-> JStr(v.pairs[i].k)]]
    ELSE [ok |-> FALSE, items |-> <<>>]

\* lines 360-368 for one entry: entry.get, get_pinyin and the later join
\* need an object whose word is a string
EntryOk(entry) ==
    entry.t = "obj" /\ dict_get(entry, "word", JStr("")).t = "str"

\* word_data_of with the entries of an empty word left out
word_data_of_nonempty(entries) ==
    LET kept == SelectSeq(entries,
                    LAMBDA e : dict_get(e, "word", JStr("")).s # "")
    IN  [i \in 1..Len(kept) |->
            LET word == dict_get(kept[i], "word", JStr("")).s
            IN  [word |-> JStr(word), pinyin |-> JStr(get_pinyin(word))]]

word_data_of(entries) ==
    [i \in 1..Len(entries) |->
        LET word == dict_get(entries[i], "word", JStr("")).s
        IN  [word |-> JStr(word), pinyin |-> JStr(get_pinyin(word))]]

\* enrich_line with the raw content of the cue as text
enrich_line_raw(sub, line, ai_data) ==
    LET NoEntry == [raised |-> TRUE, entry |-> <<>>]
    IN  IF ai_data.t # "obj" THEN NoEntry
        ELSE LET words == dict_get(ai_data, "words", JList(<<>>))
                 it == iterate(words)
             IN  IF ~it.ok THEN NoEntry
                 ELSE IF \E i \in 1..Len(it.items) : ~EntryOk(it.items[i])
                 THEN NoEntry
                 ELSE [raised |-> FALSE,
                       entry |->
                         << [start |-> total_seconds(sub.start),
                             end |-> total_seconds(sub.end),
                             text |-> sub.content,
                             segmented |-> word_data_of(it.items),
                             translation |-> dict_get(ai_data, "translation", JStr("")),
                             explanation |-> dict_get(ai_data, "explanation", JStr("")),
                             word_meanings |-> words] >>]

\* the entry appended for cue sub, or raised where the body raises
enrich_line(sub, line, ai_data) ==
    LET NoEntry == [raised |-> TRUE, entry |-> <<>>]
    IN  IF ai_data.t # "obj" THEN NoEntry
        ELSE LET words == dict_get(ai_data, "words", JList(<<>>))
                 it == iterate(words)
             IN  IF ~it.ok THEN NoEntry
                 ELSE IF \E i \in 1..Len(it.items) : ~EntryOk(it.items[i])
                 THEN NoEntry
                 ELSE [raised |-> FALSE,
                       entry |->
                         << [start |-> total_seconds(sub.start),
                             end |-> total_seconds(sub.end),
                             text |-> line,
                             segmented |-> word_data_of(it.items),
                             translation |-> dict_get(ai_data, "translation", JStr("")),
                             explanation |-> dict_get(ai_data, "explanation", JStr("")),
                             word_meanings |-> words] >>]

(***************************************************************************)
(* The enrichment run: __main__, enrich_subtitles, get_ai_analysis and the *)
(* one worker of its executor.                                             *)
(***************************************************************************)
VARIABLES
    AI_SERVICE,     \* "openai" or "deepseek"
    MAX_LINES,      \* {} for None, {n} for the cap n
    pc,             \* where the main thread stands
    exit_status,    \* {} while running, {code} once the process has ended
    error,          \* the function an uncaught exception came out of
    filenames,      \* the sorted listing of __main__
    fidx,           \* index into filenames of the file of this iteration
    srt_path,       \* enrich_subtitles: its argument
    media_name,
    output_path,
    subs,
    output,
    limit,
    idx,            \* cues of subs handled so far
    line,
    ai_data,        \* what get_ai_analysis returned for line
    how,            \* the way get_ai_analysis returned
    worker,         \* "idle", "running", "done": the executor's worker
    future,         \* the worker's result once it is done
    elapsed,        \* seconds since the call was submitted
    calls,          \* backend calls issued in this run
    artifacts       \* output path -> the sequence persisted there

enrich_vars ==
    << AI_SERVICE, MAX_LINES, pc, exit_status, error, filenames, fidx,
       srt_path, media_name, output_path, subs, output, limit, idx, line,
       ai_data, how, worker, future, elapsed, calls, artifacts >>

\* word_frequency.main and its cache directory
VARIABLES
    fpc,            \* where main stands
    runs,           \* runs of main started so far
    corpus,         \* the texts of the artifacts the run has scanned
    frequency_dict, \* main: the table build_word_frequency_corpus returned
    score_dict,     \* main: the table map_frequency_to_scores returned
    cache           \* <<>> or <<[frequency, scores]>>: the two cache files

freq_vars == << fpc, runs, corpus, frequency_dict, score_dict, cache >>

\* map_frequency_to_scores applied on its own
VARIABLES
    spc,            \* "ready" before the call, "scored" after it
    table,          \* the argument
    scored          \* what the call gave

score_vars == << spc, table, scored >>

\* the clean-up and decoding of get_ai_analysis applied to a response text,
\* and then to the clean-up's own output
VARIABLES
    response,       \* the text sent; the text and place it is a comma variant of
    contents,       \* content after the clean-up of each pass
    records,        \* what get_ai_analysis returned in each pass
    reference       \* what get_ai_analysis returns for the text varied

clean_vars == << response, contents, records, reference >>

\* update_word_status_by_characters of lingq_patch.py, one invocation
VARIABLES
    lpc,             \* where the invocation is
    characters,      \* the arguments
    status,
    extended_status, \* {} for None
    search_result,   \* the locals
    import_result,
    search_again,
    patch_result,
    word_pk,
    was_imported,
    requests_made,   \* the requests sent to the service, in order
    returned         \* {} until the function returns, then its result

lingq_vars ==
    << lpc, characters, status, extended_status, search_result, import_result,
       search_again, patch_result, word_pk, was_imported, requests_made,
       returned >>

vars == << enrich_vars, freq_vars, score_vars, clean_vars, lingq_vars >>

Services == {"openai", "deepseek"}

LineCaps == {{}} \cup { {n} : n \in 0..MaxCap }

IsSubtitle(f) == endswith(f, ".srt") \/ endswith(f, ".txt")

\* what INPUT_FOLDER can hold: at most MaxFiles subtitle files
Listings ==
    { S \in SUBSET { FileOrder[i] : i \in 1..Len(FileOrder) } :
        Cardinality({ f \in S : IsSubtitle(f) }) <= MaxFiles }

sorted(S) == SelectSeq(FileOrder, LAMBDA f : f \in S)

Min(a, b) == IF a <= b THEN a ELSE b

\* the static configuration, lines 36-37
EnrichConfig ==
    /\ AI_SERVICE \in Services
    /\ MAX_LINES \in LineCaps

InitEnrich ==
    /\ pc = "main_start"
    /\ exit_status = {}
    /\ error = "none"
    /\ filenames = <<>>
    /\ fidx = 0
    /\ srt_path = ""
    /\ media_name = ""
    /\ output_path = ""
    /\ subs = <<>>
    /\ output = <<>>
    /\ limit = 0
    /\ idx = 0
    /\ line = ""
    /\ ai_data = JNull
    /\ how = "none"
    /\ worker = "idle"
    /\ future = NoFuture
    /\ elapsed = 0
    /\ calls = 0
    /\ artifacts = <<>>

\* lines 409-418, INPUT_FOLDER absent: sys.exit(1)
MainFolderMissing ==
    /\ pc = "main_start"
    /\ pc' = "exited"
    /\ exit_status' = {1}
    /\ UNCHANGED << AI_SERVICE, MAX_LINES, error, filenames, fidx,
                    srt_path, media_name, output_path, subs, output, limit,
                    idx, line, ai_data, how, worker, future, elapsed, calls,
                    artifacts >>

\* lines 409-414: the sorted listing of the subtitle files of INPUT_FOLDER
MainList ==
    /\ pc = "main_start"
    /\ \E S \in Listings : filenames' = sorted({ f \in S : IsSubtitle(f) })
    /\ fidx' = 1
    /\ pc' = "main_loop"
    /\ UNCHANGED << AI_SERVICE, MAX_LINES, exit_status, error, srt_path,
                    media_name, output_path, subs, output, limit, idx, line,
                    ai_data, how, worker, future, elapsed, calls, artifacts >>

\* line 421 with no file left: the script ends
MainFinish ==
    /\ pc = "main_loop"
    /\ fidx > Len(filenames)
    /\ pc' = "exited"
    /\ exit_status' = {0}
    /\ UNCHANGED << AI_SERVICE, MAX_LINES, error, filenames, fidx,
                    srt_path, media_name, output_path, subs, output, limit,
                    idx, line, ai_data, how, worker, future, elapsed, calls,
                    artifacts >>

\* MainSkipMissing ending the run at the missing file
MainSkipMissingAborts ==
    /\ pc = "main_loop"
    /\ fidx <= Len(filenames)
    /\ \E exists \in BOOLEAN : ~exists
    /\ pc' = "exited"
    /\ exit_status' = {1}
    /\ UNCHANGED << AI_SERVICE, MAX_LINES, error, fidx,
                    filenames, srt_path, media_name, output_path, subs, output,
                    limit, idx, line, ai_data, how, worker, future, elapsed,
                    calls, artifacts >>

\* lines 424-427: os.path.exists answers that the listed file is gone
MainSkipMissing ==
    /\ pc = "main_loop"
    /\ fidx <= Len(filenames)
    /\ \E exists \in BOOLEAN : ~exists
    /\ fidx' = fidx + 1
    /\ UNCHANGED << AI_SERVICE, MAX_LINES, pc, exit_status, error,
                    filenames, srt_path, media_name, output_path, subs, output,
                    limit, idx, line, ai_data, how, worker, future, elapsed,
                    calls, artifacts >>

\* lines 429-438: enrich_subtitles is called
MainProcess ==
    /\ pc = "main_loop"
    /\ fidx <= Len(filenames)
    /\ \E exists \in BOOLEAN : exists
    /\ srt_path' = filenames[fidx]
    /\ pc' = "enrich_enter"
    /\ UNCHANGED << AI_SERVICE, MAX_LINES, exit_status, error,
                    filenames, fidx, media_name, output_path, subs, output,
                    limit, idx, line, ai_data, how, worker, future, elapsed,
                    calls, artifacts >>

\* lines 330-333: the file has gone since line 425, enrich_subtitles returns
EnrichSkip ==
    /\ pc = "enrich_enter"
    /\ \E exists \in BOOLEAN : ~exists
    /\ fidx' = fidx + 1
    /\ pc' = "main_loop"
    /\ UNCHANGED << AI_SERVICE, MAX_LINES, exit_status, error,
                    filenames, srt_path, media_name, output_path, subs, output,
                    limit, idx, line, ai_data, how, worker, future, elapsed,
                    calls, artifacts >>

\* lines 335-347: the file is parsed into n cues
EnrichOpen ==
    /\ pc = "enrich_enter"
    /\ \E exists \in BOOLEAN : exists
    /\ \E n \in 0..(MaxCalls - calls) :
          /\ subs' = [i \in 1..n |-> CueOf(FileRank(srt_path), i)]
          /\ limit' = IF MAX_LINES = {} THEN n ELSE CHOOSE m \in MAX_LINES : TRUE
    /\ media_name' = infer_media_name_from_path(srt_path)
    /\ output_path' = output_path_of(infer_media_name_from_path(srt_path))
    /\ output' = <<>>
    /\ idx' = 0
    /\ pc' = "enrich_loop"
    /\ UNCHANGED << AI_SERVICE, MAX_LINES, exit_status, error,
                    filenames, fidx, srt_path, line, ai_data, how, worker,
                    future, elapsed, calls, artifacts >>

\* EnrichNextCue walking subs instead of subs[:limit]
EnrichNextCueUncapped ==
    /\ pc = "enrich_loop"
    /\ idx < Len(subs)
    /\ line' = strip(subs[idx + 1].content)
    /\ worker' = "running"
    /\ future' = NoFuture
    /\ elapsed' = 0
    /\ calls' = calls + 1
    /\ ai_data' = JNull
    /\ how' = "none"
    /\ pc' = "ai_wait"
    /\ UNCHANGED << AI_SERVICE, MAX_LINES, exit_status, error,
                    filenames, fidx, srt_path, media_name, output_path, subs,
                    output, limit, idx, artifacts >>

\* lines 350-355 and 277-281: the next cue of subs[:limit]; get_ai_analysis
\* submits call_api to the worker and waits for the future
EnrichNextCue ==
    /\ pc = "enrich_loop"
    /\ idx < Min(limit, Len(subs))
    /\ line' = strip(subs[idx + 1].content)
    /\ worker' = "running"
    /\ future' = NoFuture
    /\ elapsed' = 0
    /\ calls' = calls + 1
    /\ ai_data' = JNull
    /\ how' = "none"
    /\ pc' = "ai_wait"
    /\ UNCHANGED << AI_SERVICE, MAX_LINES, exit_status, error,
                    filenames, fidx, srt_path, media_name, output_path, subs,
                    output, limit, idx, artifacts >>

\* the worker: call_api returns or raises after d seconds.  While the main
\* thread waits in future.result this is before the deadline; once the
\* deadline has expired it is at the deadline or later
WorkerReturns ==
    /\ worker = "running"
    /\ \E d \in Durations, reply \in Replies(build_prompt(line, media_name).text) :
          /\ pc = "ai_wait" => d < TIMEOUT_SECONDS
          /\ pc = "ai_shutdown" => d >= TIMEOUT_SECONDS
          /\ elapsed' = d
          /\ future' = call_api(AI_SERVICE, reply)
    /\ worker' = "done"
    /\ UNCHANGED << AI_SERVICE, MAX_LINES, pc, exit_status, error,
                    filenames, fidx, srt_path, media_name, output_path, subs,
                    output, limit, idx, line, ai_data, how, calls, artifacts >>

\* line 281: future.result raises TimeoutError inside the with block, whose
\* exit is executor.shutdown(wait=True)
DeadlineExpires ==
    /\ pc = "ai_wait"
    /\ worker = "running"
    /\ elapsed' = TIMEOUT_SECONDS
    /\ pc' = "ai_shutdown"
    /\ UNCHANGED << AI_SERVICE, MAX_LINES, exit_status, error,
                    filenames, fidx, srt_path, media_name, output_path, subs,
                    output, limit, idx, line, ai_data, how, worker, future,
                    calls, artifacts >>

\* GetAiResult submitting the call once more where the first one failed or
\* its text did not decode
GetAiResultRetries ==
    /\ pc = "ai_wait"
    /\ worker = "done"
    /\ LET r == get_ai_result(future)
           again == r.how \in {"api_error", "decode_error"} /\ calls < MaxCalls
       IN  /\ ai_data' = IF again THEN ai_data ELSE r.data
           /\ how' = IF again THEN how ELSE r.how
           /\ pc' = IF again THEN "ai_wait"
                    ELSE IF r.raised THEN "exited" ELSE "enrich_got"
           /\ error' = IF r.raised THEN "get_ai_analysis" ELSE error
           /\ exit_status' = IF r.raised THEN {1} ELSE exit_status
           /\ worker' = IF again THEN "running" ELSE "idle"
           /\ calls' = IF again THEN calls + 1 ELSE calls
    /\ future' = NoFuture
    /\ UNCHANGED << AI_SERVICE, MAX_LINES, filenames, fidx, srt_path,
                    media_name, output_path, subs, output, limit, idx, line,
                    elapsed, artifacts >>

\* lines 281-309: the future is done in time; get_ai_analysis returns
GetAiResult ==
    /\ pc = "ai_wait"
    /\ worker = "done"
    /\ LET r == get_ai_result(future)
       IN  /\ ai_data' = r.data
           /\ how' = r.how
           /\ pc' = IF r.raised THEN "exited" ELSE "enrich_got"
           /\ error' = IF r.raised THEN "get_ai_analysis" ELSE error
           /\ exit_status' = IF r.raised THEN {1} ELSE exit_status
    /\ worker' = "idle"
    /\ future' = NoFuture
    /\ UNCHANGED << AI_SERVICE, MAX_LINES, filenames, fidx, srt_path,
                    media_name, output_path, subs, output, limit, idx, line,
                    elapsed, calls, artifacts >>

\* GetAiTimeout with a shutdown that does not join the worker
\* (shutdown(wait=False)): the handler returns while call_api still runs
GetAiTimeoutNoJoin ==
    /\ pc = "ai_shutdown"
    /\ ai_data' = EmptyAnalysis
    /\ how' = "timeout"
    /\ pc' = "enrich_got"
    /\ worker' = IF worker = "done" THEN "idle" ELSE worker
    /\ future' = NoFuture
    /\ UNCHANGED << AI_SERVICE, MAX_LINES, exit_status, error,
                    filenames, fidx, srt_path, media_name, output_path, subs,
                    output, limit, idx, line, elapsed, calls, artifacts >>

\* GetAiTimeout handing on what the late worker returned
GetAiTimeoutKeepsResult ==
    /\ pc = "ai_shutdown"
    /\ worker = "done"
    /\ ai_data' = get_ai_result(future).data
    /\ how' = "timeout"
    /\ pc' = "enrich_got"
    /\ worker' = "idle"
    /\ future' = NoFuture
    /\ UNCHANGED << AI_SERVICE, MAX_LINES, exit_status, error,
                    filenames, fidx, srt_path, media_name, output_path, subs,
                    output, limit, idx, line, elapsed, calls, artifacts >>

\* lines 282-285: the shutdown has joined the worker, the handler of
\* TimeoutError returns the empty record; the worker's result is dropped
GetAiTimeout ==
    /\ pc = "ai_shutdown"
    /\ worker = "done"
    /\ ai_data' = EmptyAnalysis
    /\ how' = "timeout"
    /\ pc' = "enrich_got"
    /\ worker' = "idle"
    /\ future' = NoFuture
    /\ UNCHANGED << AI_SERVICE, MAX_LINES, exit_status, error,
                    filenames, fidx, srt_path, media_name, output_path, subs,
                    output, limit, idx, line, elapsed, calls, artifacts >>

\* lines 385-386: percent = (idx / limit) * 100, in whole percents; raised
\* where the division is by zero
progress(i, lim) ==
    [raised |-> lim = 0,
     percent |-> IF lim = 0 THEN 0 ELSE (i * 100) \div lim]

\* EnrichAppend putting the new EnrichedLine in front of the others
EnrichAppendFront ==
    /\ pc = "enrich_got"
    /\ LET e == enrich_line(subs[idx + 1], line, ai_data)
           r == [raised |-> e.raised \/ progress(idx + 1, limit).raised,
                 entry |-> e.entry]
       IN  /\ output' = IF r.raised THEN output ELSE r.entry \o output
           /\ idx' = IF r.raised THEN idx ELSE idx + 1
           /\ pc' = IF r.raised THEN "exited" ELSE "enrich_loop"
           /\ error' = IF r.raised THEN "enrich_subtitles" ELSE error
           /\ exit_status' = IF r.raised THEN {1} ELSE exit_status
    /\ UNCHANGED << AI_SERVICE, MAX_LINES, filenames, fidx, srt_path,
                    media_name, output_path, subs, limit, line, ai_data, how,
                    worker, future, elapsed, calls, artifacts >>

\* lines 357-388: the EnrichedLine of the cue is appended, or the body
\* raises and the traceback ends the process
EnrichAppend ==
    /\ pc = "enrich_got"
    /\ LET e == enrich_line(subs[idx + 1], line, ai_data)
           r == [raised |-> e.raised \/ progress(idx + 1, limit).raised,
                 entry |-> e.entry]
       IN  /\ output' = IF r.raised THEN output ELSE output \o r.entry
           /\ idx' = IF r.raised THEN idx ELSE idx + 1
           /\ pc' = IF r.raised THEN "exited" ELSE "enrich_loop"
           /\ error' = IF r.raised THEN "enrich_subtitles" ELSE error
           /\ exit_status' = IF r.raised THEN {1} ELSE exit_status
    /\ UNCHANGED << AI_SERVICE, MAX_LINES, filenames, fidx, srt_path,
                    media_name, output_path, subs, limit, line, ai_data, how,
                    worker, future, elapsed, calls, artifacts >>

\* EnrichSave adding the output to the lines the artifact holds already
EnrichSaveAppends ==
    /\ pc = "enrich_loop"
    /\ idx >= Min(limit, Len(subs))
    /\ artifacts' = [p \in DOMAIN artifacts \cup {output_path} |->
                        IF p # output_path THEN artifacts[p]
                        ELSE IF p \in DOMAIN artifacts
                        THEN artifacts[p] \o output ELSE output]
    /\ fidx' = fidx + 1
    /\ pc' = "main_loop"
    /\ srt_path' = ""
    /\ media_name' = ""
    /\ output_path' = ""
    /\ subs' = <<>>
    /\ output' = <<>>
    /\ limit' = 0
    /\ idx' = 0
    /\ line' = ""
    /\ ai_data' = JNull
    /\ how' = "none"
    /\ elapsed' = 0
    /\ UNCHANGED << AI_SERVICE, MAX_LINES, exit_status, error, filenames,
                    worker, future, calls >>

\* EnrichSave writing nothing where the output is empty
EnrichSaveNonEmpty ==
    /\ pc = "enrich_loop"
    /\ idx >= Min(limit, Len(subs))
    /\ artifacts' = IF output = <<>> THEN artifacts
                    ELSE [p \in DOMAIN artifacts \cup {output_path} |->
                             IF p = output_path THEN output ELSE artifacts[p]]
    /\ fidx' = fidx + 1
    /\ pc' = "main_loop"
    /\ srt_path' = ""
    /\ media_name' = ""
    /\ output_path' = ""
    /\ subs' = <<>>
    /\ output' = <<>>
    /\ limit' = 0
    /\ idx' = 0
    /\ line' = ""
    /\ ai_data' = JNull
    /\ how' = "none"
    /\ elapsed' = 0
    /\ UNCHANGED << AI_SERVICE, MAX_LINES, exit_status, error, filenames,
                    worker, future, calls >>

\* lines 390-394: the output is written and enrich_subtitles returns; its
\* locals are gone with it
EnrichSave ==
    /\ pc = "enrich_loop"
    /\ idx >= Min(limit, Len(subs))
    /\ artifacts' = [p \in DOMAIN artifacts \cup {output_path} |->
                        IF p = output_path THEN output ELSE artifacts[p]]
    /\ fidx' = fidx + 1
    /\ pc' = "main_loop"
    /\ srt_path' = ""
    /\ media_name' = ""
    /\ output_path' = ""
    /\ subs' = <<>>
    /\ output' = <<>>
    /\ limit' = 0
    /\ idx' = 0
    /\ line' = ""
    /\ ai_data' = JNull
    /\ how' = "none"
    /\ elapsed' = 0
    /\ UNCHANGED << AI_SERVICE, MAX_LINES, exit_status, error, filenames,
                    worker, future, calls >>

(***************************************************************************)
(* word_frequency.py                                                       *)
(***************************************************************************)
\* bounds: artifacts in the directory, runs of main, and the tables given
\* to the mapper on its own (words, largest count)
MaxArtifacts == 2
MaxRuns == 2
MaxWords == 3
MaxCount == 5

\* The character class of chinese_regex.  Written with \u escapes of five
\* and six digits, it holds, besides the CJK blocks, every character from
\* "0" (U+0030) up to U+2CEA; of the model's alphabet only the characters
\* below "0" are outside it.
BelowZero == {" ", "\n", "\t", "\r", "!", "\"", "#", "&", "'", ",", "-", ".", "/"}

chinese_regex_search(word) ==
    \E i \in 1..Len(word) : CharAt(word, i) \notin BelowZero

isdigit(word) ==
    Len(word) > 0 /\ \A i \in 1..Len(word) : CharAt(word, i) \in Digits

is_chinese_word(word) == chinese_regex_search(word) /\ ~isdigit(word)

\* bool(v) of Python
truthy(v) ==
    CASE v.t = "null" -> FALSE
      [] v.t = "bool" -> v.b
      [] v.t = "num"  -> v.n # 0
      [] v.t = "str"  -> Len(v.s) > 0
      [] v.t = "list" -> Len(v.items) > 0
      [] v.t = "obj"  -> Len(v.pairs) > 0

\* a dict of counts is the sequence of its [k, v] pairs in insertion order
freq_get(fd, k, default) ==
    IF \E i \in 1..Len(fd) : fd[i].k = k
    THEN fd[CHOOSE i \in 1..Len(fd) : fd[i].k = k].v
    ELSE default

Keys(fd) == { fd[i].k : i \in 1..Len(fd) }

FreqRaise == [raised |-> TRUE, fd |-> <<>>]

\* count_segments starting the count of a new word at 0
RECURSIVE count_segments_from_zero(_, _, _)
count_segments_from_zero(segs, i, fd) ==
    IF i > Len(segs) THEN [raised |-> FALSE, fd |-> fd]
    ELSE LET segment == segs[i]
         IN  IF segment.t # "obj" THEN FreqRaise
             ELSE LET w == dict_get(segment, "word", JNull)
                  IN  IF ~truthy(w) THEN count_segments_from_zero(segs, i + 1, fd)
                      ELSE IF w.t # "str" THEN FreqRaise
                      ELSE IF is_chinese_word(w.s)
                      THEN count_segments_from_zero(segs, i + 1,
                               dict_set(fd, w.s, freq_get(fd, w.s, -1) + 1))
                      ELSE count_segments_from_zero(segs, i + 1, fd)

\* lines 65-68 from segment i on
RECURSIVE count_segments(_, _, _)
count_segments(segs, i, fd) ==
    IF i > Len(segs) THEN [raised |-> FALSE, fd |-> fd]
    ELSE LET segment == segs[i]
         IN  IF segment.t # "obj" THEN FreqRaise
             ELSE LET w == dict_get(segment, "word", JNull)
                  IN  IF ~truthy(w) THEN count_segments(segs, i + 1, fd)
                      ELSE IF w.t # "str" THEN FreqRaise
                      ELSE IF is_chinese_word(w.s)
                      THEN count_segments(segs, i + 1,
                               dict_set(fd, w.s, freq_get(fd, w.s, 0) + 1))
                      ELSE count_segments(segs, i + 1, fd)

\* lines 63-68 from subtitle i on
RECURSIVE count_subtitles(_, _, _)
count_subtitles(data, i, fd) ==
    IF i > Len(data) THEN [raised |-> FALSE, fd |-> fd]
    ELSE LET subtitle == data[i]
         IN  IF subtitle.t # "obj" THEN FreqRaise
             ELSE LET seg == dict_get(subtitle, "segmented", JNull)
                  IN  IF truthy(seg) /\ seg.t = "list"
                      THEN LET r == count_segments(seg.items, 1, fd)
                           IN  IF r.raised THEN FreqRaise
                               ELSE count_subtitles(data, i + 1, r.fd)
                      ELSE count_subtitles(data, i + 1, fd)

\* lines 57-68 from file i on; files holds the texts of the artifacts
RECURSIVE count_files(_, _, _)
count_files(files, i, fd) ==
    IF i > Len(files) THEN [raised |-> FALSE, fd |-> fd]
    ELSE LET data == json_loads(files[i])
         IN  IF ~data.ok THEN FreqRaise
             ELSE IF data.val.t = "list"
             THEN LET r == count_subtitles(data.val.items, 1, fd)
                  IN  IF r.raised THEN FreqRaise
                      ELSE count_files(files, i + 1, r.fd)
             ELSE count_files(files, i + 1, fd)

\* lines 48-78: the table, or {} from the handler of line 76
build_word_frequency_corpus(files) ==
    LET r == count_files(files, 1, <<>>)
    IN  IF r.raised THEN <<>> ELSE r.fd

\* breakpoints of lines 98-104, in hundredths
BP5 == 60
BP4 == 80
BP3 == 90
BP2 == 97

\* sorted_place without reverse=True: ascending counts
sorted_place_ascending(fd, i) ==
    Cardinality({ j \in 1..Len(fd) : fd[j].v < fd[i].v })
    + Cardinality({ j \in 1..(i - 1) : fd[j].v = fd[i].v }) + 1

\* sorted_place with equal counts in the reverse of their insertion order
sorted_place_unstable(fd, i) ==
    Cardinality({ j \in 1..Len(fd) : fd[j].v > fd[i].v })
    + Cardinality({ j \in (i + 1)..Len(fd) : fd[j].v = fd[i].v }) + 1

\* line 93: sorted(..., key=count, reverse=True) is stable; the place of
\* entry i counts the larger entries and the equal ones before it
sorted_place(fd, i) ==
    Cardinality({ j \in 1..Len(fd) : fd[j].v > fd[i].v })
    + Cardinality({ j \in 1..(i - 1) : fd[j].v = fd[i].v }) + 1

sorted_words(fd) ==
    [r \in 1..Len(fd) |-> fd[CHOOSE i \in 1..Len(fd) : sorted_place(fd, i) = r]]

RECURSIVE sum_counts(_, _)
sum_counts(sw, n) == IF n = 0 THEN 0 ELSE sw[n].v + sum_counts(sw, n - 1)

\* score_of with the breakpoints excluded from their own tier
score_of_strict(cumulative, total_frequency) ==
    IF 100 * cumulative < BP5 * total_frequency THEN 5
    ELSE IF 100 * cumulative < BP4 * total_frequency THEN 4
    ELSE IF 100 * cumulative < BP3 * total_frequency THEN 3
    ELSE IF 100 * cumulative < BP2 * total_frequency THEN 2
    ELSE 1

\* lines 111-122: ratio = cumulative / total_frequency against the
\* breakpoints; c / t <= b / 100 is compared as 100 * c <= b * t
score_of(cumulative, total_frequency) ==
    IF 100 * cumulative <= BP5 * total_frequency THEN 5
    ELSE IF 100 * cumulative <= BP4 * total_frequency THEN 4
    ELSE IF 100 * cumulative <= BP3 * total_frequency THEN 3
    ELSE IF 100 * cumulative <= BP2 * total_frequency THEN 2
    ELSE 1

\* map_frequency_to_scores dividing by the total ahead of the loop
map_frequency_to_scores_eager(fd) ==
    LET sw == sorted_words(fd)
        total_frequency == sum_counts(sw, Len(sw))
    IN  IF total_frequency = 0
        THEN [raised |-> TRUE, scores |-> <<>>]
        ELSE [raised |-> FALSE,
              scores |-> [r \in 1..Len(sw) |->
                             [k |-> sw[r].k,
                              v |-> score_of(sum_counts(sw, r), total_frequency)]]]

\* map_frequency_to_scores comparing the running sum before the word's own
\* count is added
map_frequency_to_scores_before(fd) ==
    LET sw == sorted_words(fd)
        total_frequency == sum_counts(sw, Len(sw))
    IN  IF Len(sw) > 0 /\ total_frequency = 0
        THEN [raised |-> TRUE, scores |-> <<>>]
        ELSE [raised |-> FALSE,
              scores |-> [r \in 1..Len(sw) |->
                             [k |-> sw[r].k,
                              v |-> score_of(sum_counts(sw, r - 1), total_frequency)]]]

\* lines 90-124: raised where the division of line 111 is by zero
map_frequency_to_scores(fd) ==
    LET sw == sorted_words(fd)
        total_frequency == sum_counts(sw, Len(sw))
    IN  IF Len(sw) > 0 /\ total_frequency = 0
        THEN [raised |-> TRUE, scores |-> <<>>]
        ELSE [raised |-> FALSE,
              scores |-> [r \in 1..Len(sw) |->
                             [k |-> sw[r].k,
                              v |-> score_of(sum_counts(sw, r), total_frequency)]]]

\* texts of the enriched artifacts a directory can hold
SegmentsText(words) ==
    "[" \o join(",", [i \in 1..Len(words) |-> "{\"word\":\"" \o words[i] \o "\"}"]) \o "]"

LineText(words) == "{\"segmented\":" \o SegmentsText(words) \o "}"

ArtifactTexts ==
    { "[" \o LineText(<<"NH", "NH", "ZJ">>) \o "," \o LineText(<<"NH">>) \o "]",
      "[" \o LineText(<<"NH", "123", "NH", "ab">>) \o "]",
      "[{\"segmented\":[]},{\"text\":\"x\"},"
          \o "{\"segmented\":[{\"word\":\"\"},{\"pinyin\":\"p\"},{\"word\":\"NH3\"}]}]",
      "{\"segmented\":[{\"word\":\"ZJ\"}]}",
      "[" \o LineText(<<"ZJ">>),
      "[null]",
      "[{\"segmented\":[7]}]" }

\* the artifacts glob returns, in the order it returns them
RECURSIVE Arrangements(_, _)
Arrangements(S, n) ==
    IF n = 0 THEN {<<>>}
    ELSE LET shorter == Arrangements(S, n - 1)
         IN  shorter \cup
             { Append(q, x) : q \in { p \in shorter : Len(p) = n - 1 }, x \in S }

Distinct(q) == \A i, j \in 1..Len(q) : i # j => q[i] # q[j]

Corpora == { q \in Arrangements(ArtifactTexts, MaxArtifacts) : Distinct(q) }

(***************************************************************************)
(* word_frequency.main, run after run over the directory of the moment.    *)
(***************************************************************************)
InitFreq ==
    /\ fpc = "start"
    /\ runs = 0
    /\ corpus = <<>>
    /\ frequency_dict = <<>>
    /\ score_dict = <<>>
    /\ cache = <<>>

\* lines 201-202: main calls build_word_frequency_corpus
FreqBuild ==
    /\ fpc = "start"
    /\ runs < MaxRuns
    /\ \E files \in Corpora :
          /\ corpus' = files
          /\ frequency_dict' = build_word_frequency_corpus(files)
    /\ score_dict' = <<>>
    /\ runs' = runs + 1
    /\ fpc' = "built"
    /\ UNCHANGED cache

\* lines 204-206: no frequency data, main returns
FreqNoData ==
    /\ fpc = "built"
    /\ frequency_dict = <<>>
    /\ fpc' = "start"
    /\ UNCHANGED << runs, corpus, frequency_dict, score_dict, cache >>

\* lines 208-214: the scores are mapped and both tables are saved
FreqMapSave ==
    /\ fpc = "built"
    /\ frequency_dict # <<>>
    /\ LET r == map_frequency_to_scores(frequency_dict)
       IN  /\ score_dict' = r.scores
           /\ cache' = IF r.raised THEN cache
                       ELSE << [frequency |-> frequency_dict, scores |-> r.scores] >>
           /\ fpc' = IF r.raised THEN "failed" ELSE "start"
    /\ UNCHANGED << runs, corpus, frequency_dict >>

NextFreq ==
    \/ FreqBuild /\ UNCHANGED << enrich_vars, score_vars, clean_vars, lingq_vars >>
    \/ FreqNoData /\ UNCHANGED << enrich_vars, score_vars, clean_vars, lingq_vars >>
    \/ FreqMapSave /\ UNCHANGED << enrich_vars, score_vars, clean_vars, lingq_vars >>

(***************************************************************************)
(* map_frequency_to_scores on the tables of at most MaxWords words.        *)
(***************************************************************************)
TableWords == <<"NH", "ZJ", "N", "HZ", "J3">>

TableKeys == { TableWords[i] : i \in 1..Min(MaxWords + 1, Len(TableWords)) }

\* the key orders of a table of n words: a dict holds each key once
KeyOrders(n) ==
    { ks \in [1..n -> TableKeys] : \A i, j \in 1..n : i # j => ks[i] # ks[j] }

TableOf(ks, cs) == [i \in DOMAIN ks |-> [k |-> ks[i], v |-> cs[i]]]

NotScored == [raised |-> FALSE, scores |-> <<>>]

ScoresOff ==
    /\ spc = "off"
    /\ table = <<>>
    /\ scored = NotScored

InitScores ==
    /\ spc = "ready"
    /\ \E n \in 0..MaxWords :
          \E ks \in KeyOrders(n), cs \in [1..n -> 1..MaxCount] :
              table = TableOf(ks, cs)
    /\ scored = NotScored

\* lines 90-124
ScoreApply ==
    /\ spc = "ready"
    /\ scored' = map_frequency_to_scores(table)
    /\ spc' = "scored"
    /\ UNCHANGED table

\* lines 90-124 once more on the same table
ScoreAgain ==
    /\ spc = "scored"
    /\ scored' = map_frequency_to_scores(table)
    /\ spc' = "again"
    /\ UNCHANGED table

NextScores ==
    \/ ScoreApply /\ UNCHANGED << enrich_vars, freq_vars, clean_vars, lingq_vars >>
    \/ ScoreAgain /\ UNCHANGED << enrich_vars, freq_vars, clean_vars, lingq_vars >>

(***************************************************************************)
(* The clean-up and decoding of get_ai_analysis (lines 292-309) on the     *)
(* response texts, passed again over their own output.                     *)
(***************************************************************************)
\* passes of the clean-up over one text
MaxPasses == 2

\* the lines of the cues, as enrich_subtitles hands them over
Lines == { strip(CueTexts[i]) : i \in 1..Len(CueTexts) }

\* further texts a service can send
MoreResponseTexts(l) ==
    { RecordText("a,,]", WordsOf(l), "e"),
      RecordText("t", "[,]", "e"),
      "^^^^\n" \o GoodText(l) \o "\n^^^",
      "^^^json\n^^^json\n" \o GoodText(l) \o "\n^^^\n^^^",
      "^^^json\n" \o GoodText(l) }

\* position p of s is outside the strings of s (no text here escapes a quote)
Structural(s, p) ==
    Cardinality({ q \in 1..(p - 1) : CharAt(s, q) = "\"" }) % 2 = 0

\* the closing brackets and braces of the structure of s
Closers(s) ==
    { p \in 1..Len(s) : CharAt(s, p) \in {"]", "}"} /\ Structural(s, p) }

\* s with a comma put immediately before position p
WithComma(s, p) == SubSeq(s, 1, p - 1) \o "," \o SubSeq(s, p, Len(s))

TextReply(t) == [kind |-> "text", text |-> t]

SanitizeOff ==
    /\ response = [text |-> "", of |-> "", at |-> 0]
    /\ contents = <<>>
    /\ records = <<>>
    /\ reference = get_ai_result(NoFuture)

InitSanitize ==
    /\ \E l \in Lines :
          \E t \in ResponseTexts(l) \cup MoreResponseTexts(l) :
              \E p \in {0} \cup Closers(t) :
                  response = [text |-> IF p = 0 THEN t ELSE WithComma(t, p),
                              of |-> t, at |-> p]
    /\ contents = <<>>
    /\ records = <<>>
    /\ reference = get_ai_result(NoFuture)

\* lines 292-309 on the content call_api returned for the response, then
\* on the content the pass before left
SanitizePass ==
    /\ Len(contents) < MaxPasses
    /\ LET fut == IF contents = <<>>
                  THEN call_api(AI_SERVICE, TextReply(response.text))
                  ELSE [exc |-> FALSE, none |-> FALSE, val |-> contents[Len(contents)]]
       IN  /\ contents' = Append(contents, clean_content(fut.val))
           /\ records' = Append(records, get_ai_result(fut))
    /\ reference' = IF contents = <<>>
                    THEN get_ai_result(call_api(AI_SERVICE, TextReply(response.of)))
                    ELSE reference
    /\ UNCHANGED response

NextSanitize ==
    SanitizePass /\ UNCHANGED << enrich_vars, freq_vars, score_vars, lingq_vars >>

(***************************************************************************)
(* lingq_patch.py: update_word_status_by_characters and the request        *)
(* functions it calls.  A reply of the service is a connection failure, an *)
(* HTTP error status, or an ok response whose body is a JSON value or no   *)
(* JSON at all.                                                            *)
(***************************************************************************)
\* bound: the cards a search page holds
MaxCards == 2

NoJson == [t |-> "nojson"]

Card(pk, term) == JObj(<< [k |-> "pk", v |-> pk], [k |-> "term", v |-> JStr(term)] >>)

SearchBody(count, results) ==
    JObj(<< [k |-> "count", v |-> count], [k |-> "results", v |-> JList(results)] >>)

\* the card ids the service hands out; a card can come without one
CardIds == {JNum(7), JNum(8), JNull}

Pages(term) ==
    UNION { [1..n -> { Card(pk, term) : pk \in CardIds }] : n \in 0..MaxCards }

\* bodies of an ok response to the search: count and results as the service
\* sends them, a count that is not the length of the page, no count, a null
\* count, a result that is no card, a body that is no object, no JSON
SearchBodies(term) ==
    { SearchBody(JNum(Len(p)), p) : p \in Pages(term) }
    \cup { SearchBody(JNum(1), <<>>),
           SearchBody(JNum(0), << Card(JNum(7), term) >>),
           SearchBody(JNull, << Card(JNum(7), term) >>),
           SearchBody(JNum(1), << JNum(7) >>),
           JObj(<< [k |-> "results", v |-> JList(<< Card(JNum(7), term) >>)] >>),
           JList(<<>>),
           NoJson }

Failures == { [kind |-> "conn_error", body |-> NoJson],
              [kind |-> "http_error", body |-> NoJson] }

SearchReplies(term) ==
    Failures \cup { [kind |-> "ok", body |-> b] : b \in SearchBodies(term) }

WriteReplies(term) ==
    Failures \cup { [kind |-> "ok", body |-> b] : b \in {NoJson, Card(JNum(7), term)} }

SearchFailed == [success |-> FALSE, count |-> JNum(0), results |-> JList(<<>>)]

\* lines 96-157: the handler of line 155 catches what response.json(),
\* data.get and card.get raise
search_lingq_cards(reply) ==
    IF reply.kind # "ok" \/ reply.body.t # "obj" THEN SearchFailed
    ELSE LET results == dict_get(reply.body, "results", JList(<<>>))
             count == dict_get(reply.body, "count", JNum(0))
         IN  IF results.t # "list" THEN SearchFailed
             ELSE IF \E i \in 1..Len(results.items) : results.items[i].t # "obj"
             THEN SearchFailed
             ELSE [success |-> TRUE, count |-> count, results |-> results]

\* lines 161-197: the body of an ok response is not read
import_lingq_word(reply) == [success |-> reply.kind = "ok"]

\* lines 27-62: response.json() of line 55 is inside the try
patch_lingq_word(reply) ==
    [success |-> reply.kind = "ok" /\ reply.body.t # "nojson"]

\* search_result["success"] and search_result["count"] > 0, and then
\* results[0]: raised where count is not a number or the page is empty
first_of(sr) ==
    IF ~sr.success THEN [raised |-> FALSE, found |-> FALSE, card |-> JNull]
    ELSE IF sr.count.t \notin {"num", "bool"}
    THEN [raised |-> TRUE, found |-> FALSE, card |-> JNull]
    ELSE IF (sr.count.t = "num" /\ sr.count.n <= 0) \/ (sr.count.t = "bool" /\ ~sr.count.b)
    THEN [raised |-> FALSE, found |-> FALSE, card |-> JNull]
    ELSE IF Len(sr.results.items) = 0
    THEN [raised |-> TRUE, found |-> FALSE, card |-> JNull]
    ELSE [raised |-> FALSE, found |-> TRUE, card |-> sr.results.items[1]]

Request(op, arg, data) == [op |-> op, arg |-> arg, data |-> data]

Result(success, imported, updated, pk) ==
    [success |-> success, imported |-> imported, updated |-> updated, word_pk |-> pk]

LingqOff ==
    /\ lpc = "off"
    /\ characters = ""
    /\ status = 0
    /\ extended_status = {}
    /\ search_result = SearchFailed
    /\ import_result = [success |-> FALSE]
    /\ search_again = SearchFailed
    /\ patch_result = [success |-> FALSE]
    /\ word_pk = JNull
    /\ was_imported = FALSE
    /\ requests_made = <<>>
    /\ returned = {}

\* lines 249-266: the function is entered
InitLingq ==
    /\ lpc = "search"
    /\ characters \in {"NH", "ZJ"}
    /\ status \in {0, 3}
    /\ extended_status \in {{}, {3}}
    /\ search_result = SearchFailed
    /\ import_result = [success |-> FALSE]
    /\ search_again = SearchFailed
    /\ patch_result = [success |-> FALSE]
    /\ word_pk = JNull
    /\ was_imported = FALSE
    /\ requests_made = <<>>
    /\ returned = {}

\* LingqSearch importing the word whether the search found it or not
LingqSearchThenImport ==
    /\ lpc = "search"
    /\ \E reply \in SearchReplies(characters) :
          LET sr == search_lingq_cards(reply)
              f == first_of(sr)
          IN  /\ search_result' = sr
              /\ lpc' = IF f.raised THEN "raised" ELSE "import"
              /\ word_pk' = word_pk
    /\ requests_made' = Append(requests_made, Request("search", JStr(characters), {}))
    /\ UNCHANGED << characters, status, extended_status, import_result,
                    search_again, patch_result, was_imported, returned >>

\* lines 268-286, step 1: the search; the word is found, or is to be imported
LingqSearch ==
    /\ lpc = "search"
    /\ \E reply \in SearchReplies(characters) :
          LET sr == search_lingq_cards(reply)
              f == first_of(sr)
          IN  /\ search_result' = sr
              /\ lpc' = IF f.raised THEN "raised"
                        ELSE IF f.found THEN "update" ELSE "import"
              /\ word_pk' = IF f.found THEN dict_get(f.card, "pk", JNull) ELSE word_pk
    /\ requests_made' = Append(requests_made, Request("search", JStr(characters), {}))
    /\ UNCHANGED << characters, status, extended_status, import_result,
                    search_again, patch_result, was_imported, returned >>

\* lines 287-289 and 311-318: the import; where it fails the function returns
LingqImport ==
    /\ lpc = "import"
    /\ \E reply \in WriteReplies(characters) :
          LET ir == import_lingq_word(reply)
          IN  /\ import_result' = ir
              /\ lpc' = IF ir.success THEN "search_again" ELSE "returned"
              /\ returned' = IF ir.success THEN returned
                             ELSE {Result(FALSE, FALSE, FALSE, JNull)}
    /\ requests_made' = Append(requests_made, Request("import", JStr(characters), {}))
    /\ UNCHANGED << characters, status, extended_status, search_result,
                    search_again, patch_result, word_pk, was_imported >>

\* lines 290-310: the second search, for the word just imported
LingqSearchAgain ==
    /\ lpc = "search_again"
    /\ \E reply \in SearchReplies(characters) :
          LET sr == search_lingq_cards(reply)
              f == first_of(sr)
          IN  /\ search_again' = sr
              /\ lpc' = IF f.raised THEN "raised"
                        ELSE IF f.found THEN "update" ELSE "returned"
              /\ word_pk' = IF f.found THEN dict_get(f.card, "pk", JNull) ELSE word_pk
              /\ was_imported' = (f.found \/ was_imported)
              /\ returned' = IF f.raised \/ f.found THEN returned
                             ELSE {Result(FALSE, TRUE, FALSE, JNull)}
    /\ requests_made' = Append(requests_made, Request("search", JStr(characters), {}))
    /\ UNCHANGED << characters, status, extended_status, search_result,
                    import_result, patch_result >>

\* lines 321-351, step 2: the PATCH of the word's status
LingqPatch ==
    /\ lpc = "update"
    /\ truthy(word_pk)
    /\ \E reply \in WriteReplies(characters) :
          LET pr == patch_lingq_word(reply)
          IN  /\ patch_result' = pr
              /\ returned' = {Result(pr.success, was_imported, pr.success, word_pk)}
    /\ requests_made' = Append(requests_made,
           Request("patch", word_pk,
                   {[status |-> status, extended_status |-> extended_status]}))
    /\ lpc' = "returned"
    /\ UNCHANGED << characters, status, extended_status, search_result,
                    import_result, search_again, word_pk, was_imported >>

\* lines 352-358: the card found has no id
LingqNoWordId ==
    /\ lpc = "update"
    /\ ~truthy(word_pk)
    /\ returned' = {Result(FALSE, was_imported, FALSE, JNull)}
    /\ lpc' = "returned"
    /\ UNCHANGED << characters, status, extended_status, search_result,
                    import_result, search_again, patch_result, word_pk,
                    was_imported, requests_made >>

NextLingq ==
    \/ LingqSearch /\ UNCHANGED << enrich_vars, freq_vars, score_vars, clean_vars >>
    \/ LingqImport /\ UNCHANGED << enrich_vars, freq_vars, score_vars, clean_vars >>
    \/ LingqSearchAgain /\ UNCHANGED << enrich_vars, freq_vars, score_vars, clean_vars >>
    \/ LingqPatch /\ UNCHANGED << enrich_vars, freq_vars, score_vars, clean_vars >>
    \/ LingqNoWordId /\ UNCHANGED << enrich_vars, freq_vars, score_vars, clean_vars >>

(***************************************************************************)
(* The specifications.                                                     *)
(***************************************************************************)
ConfigAsShipped ==
    /\ AI_SERVICE = "openai"
    /\ MAX_LINES = {}

Init ==
    EnrichConfig /\ InitEnrich /\ InitFreq /\ ScoresOff /\ SanitizeOff /\ LingqOff

Next ==
    \/ MainFolderMissing /\ UNCHANGED << freq_vars, score_vars, clean_vars, lingq_vars >>
    \/ MainList /\ UNCHANGED << freq_vars, score_vars, clean_vars, lingq_vars >>
    \/ MainFinish /\ UNCHANGED << freq_vars, score_vars, clean_vars, lingq_vars >>
    \/ MainSkipMissing /\ UNCHANGED << freq_vars, score_vars, clean_vars, lingq_vars >>
    \/ MainProcess /\ UNCHANGED << freq_vars, score_vars, clean_vars, lingq_vars >>
    \/ EnrichSkip /\ UNCHANGED << freq_vars, score_vars, clean_vars, lingq_vars >>
    \/ EnrichOpen /\ UNCHANGED << freq_vars, score_vars, clean_vars, lingq_vars >>
    \/ EnrichNextCue /\ UNCHANGED << freq_vars, score_vars, clean_vars, lingq_vars >>
    \/ WorkerReturns /\ UNCHANGED << freq_vars, score_vars, clean_vars, lingq_vars >>
    \/ DeadlineExpires /\ UNCHANGED << freq_vars, score_vars, clean_vars, lingq_vars >>
    \/ GetAiResult /\ UNCHANGED << freq_vars, score_vars, clean_vars, lingq_vars >>
    \/ GetAiTimeout /\ UNCHANGED << freq_vars, score_vars, clean_vars, lingq_vars >>
    \/ EnrichAppend /\ UNCHANGED << freq_vars, score_vars, clean_vars, lingq_vars >>
    \/ EnrichSave /\ UNCHANGED << freq_vars, score_vars, clean_vars, lingq_vars >>

\* the enrichment run
Spec == Init /\ [][Next]_vars

\* the frequency build
InitFreqRun ==
    ConfigAsShipped /\ InitEnrich /\ InitFreq /\ ScoresOff /\ SanitizeOff /\ LingqOff

SpecFreq == InitFreqRun /\ [][NextFreq]_vars

\* the score mapper on its own
InitScoresRun ==
    ConfigAsShipped /\ InitEnrich /\ InitFreq /\ InitScores /\ SanitizeOff /\ LingqOff

SpecScores == InitScoresRun /\ [][NextScores]_vars

\* the clean-up and decoding on their own
InitSanitizeRun ==
    ConfigAsShipped /\ InitEnrich /\ InitFreq /\ ScoresOff /\ InitSanitize /\ LingqOff

SpecSanitize == InitSanitizeRun /\ [][NextSanitize]_vars

\* one invocation of update_word_status_by_characters
InitLingqRun ==
    ConfigAsShipped /\ InitEnrich /\ InitFreq /\ ScoresOff /\ SanitizeOff /\ InitLingq

SpecLingq == InitLingqRun /\ [][NextLingq]_vars

(***************************************************************************)
(* Properties.                                                             *)
(***************************************************************************)
\* the EnrichedLine of the cue handled last, and that cue
LastLine == output[idx]
LastCue == subs[idx]
Appended == pc = "enrich_loop" /\ idx >= 1 /\ how # "none"

\* C1: when the backend call has not returned at the deadline, get_ai_analysis
\* returns the timeout result TIMEOUT_SECONDS after the call was submitted,
\* without waiting for the worker.
C1_TimeoutResultAtDeadline ==
    how = "timeout" => elapsed = TIMEOUT_SECONDS

HasShape(v) ==
    /\ v.t = "obj"
    /\ \A key \in {"translation", "words", "explanation"} : HasKey(v, key)
    /\ dict_get(v, "translation", JNull).t = "str"
    /\ dict_get(v, "explanation", JNull).t = "str"
    /\ LET words == dict_get(v, "words", JNull)
       IN  /\ words.t = "list"
           /\ \A i \in 1..Len(words.items) :
                 /\ words.items[i].t = "obj"
                 /\ dict_get(words.items[i], "word", JStr("")).t = "str"
                 /\ dict_get(words.items[i], "meaning", JStr("")).t = "str"

DecodesToRecord(text) ==
    LET r == json_loads(text) IN r.ok /\ HasShape(r.val)

\* C3: when the cleaned response text does not decode, or decodes to a value
\* that has not the shape of an AnalysisRecord, get_ai_analysis returns
\* exactly the empty record.
C3_EmptyRecordOnBadShape ==
    [][ ( /\ pc = "ai_wait"
          /\ worker = "done"
          /\ ~future.exc
          /\ ~future.none
          /\ ~DecodesToRecord(clean_content(future.val)) )
        => ai_data' = EmptyAnalysis ]_vars

\* C4: no failure on one cue (timeout, transport failure, undecodable or
\* wrongly shaped response) halts the run: no exception ends the process.
C4_NoCueFailureHalts ==
    error = "none"

\* content is text with whitespace around it, and text has none at its ends
IsStripOf(text, content) ==
    /\ \E a \in 0..Len(content) :
          /\ a + Len(text) <= Len(content)
          /\ SubSeq(content, a + 1, a + Len(text)) = text
          /\ \A i \in (1..a) \cup ((a + Len(text) + 1)..Len(content)) :
                CharAt(content, i) \in Whitespace
    /\ Len(text) > 0 =>
          /\ CharAt(text, 1) \notin Whitespace
          /\ CharAt(text, Len(text)) \notin Whitespace

EmptyFields(e) ==
    /\ e.translation = JStr("")
    /\ e.explanation = JStr("")
    /\ e.segmented = <<>>
    /\ e.word_meanings = JList(<<>>)

SameTimes(e, cue) ==
    /\ e.start = cue.start.seconds * 1000000 + cue.start.microseconds
    /\ e.end = cue.end.seconds * 1000000 + cue.end.microseconds

\* C5 as stated: the EnrichedLine of a cue whose call timed out has empty
\* translation, explanation, segmented and word_meanings, and the text,
\* start and end of the cue unchanged.
C5_TimeoutLineKeepsRawText ==
    (Appended /\ how = "timeout") =>
        /\ EmptyFields(LastLine)
        /\ SameTimes(LastLine, LastCue)
        /\ LastLine.text = LastCue.content

\* C5 amended: as above, with the text being the text of the cue without
\* its leading and trailing whitespace.
C5_TimeoutLineKeepsStrippedText ==
    (Appended /\ how = "timeout") =>
        /\ EmptyFields(LastLine)
        /\ SameTimes(LastLine, LastCue)
        /\ IsStripOf(LastLine.text, LastCue.content)

C5_Witness ==
    /\ Appended
    /\ how = "timeout"
    /\ elapsed > TIMEOUT_SECONDS
    /\ LastLine.text # LastCue.content

\* C6: where the analysis of a cue decoded to a record, segmented has as many
\* entries as the words of the record, each with a pronunciation that is
\* not null.
C6_SegmentedMatchesWords ==
    (Appended /\ how = "decoded" /\ dict_get(ai_data, "words", JList(<<>>)).t = "list") =>
        /\ Len(LastLine.segmented) = Len(dict_get(ai_data, "words", JList(<<>>)).items)
        /\ \A k \in 1..Len(LastLine.segmented) :
              /\ LastLine.segmented[k].pinyin.t = "str"
              /\ LastLine.segmented[k].word
                    = dict_get(LastLine.word_meanings.items[k], "word", JStr(""))

C6_Witness ==
    /\ Appended
    /\ how = "decoded"
    /\ Len(LastLine.segmented) = 2
    /\ ~HasKey(LastLine.word_meanings.items[1], "word")
    /\ LastLine.segmented[2].word = JStr("")

\* the translations the backend gives for line l, and the empty one
AboutLine(e, l) ==
    /\ e.translation.t = "str"
    /\ e.translation.s \in {"", "t " \o l, "u " \o l, "see [a]"}
    /\ \A k \in 1..Len(e.segmented) : e.segmented[k].word.s \in {"", l}

\* C7: the output holds one EnrichedLine for each cue handled, in the order
\* of the cues: entry i has the text, start and end of cue i and the
\* analysis the backend gave for the line of cue i.
C7_OneLinePerCueInOrder ==
    pc \in {"enrich_loop", "ai_wait", "ai_shutdown", "enrich_got"} =>
        /\ Len(output) = idx
        /\ idx <= Min(limit, Len(subs))
        /\ \A i \in 1..Len(output) :
              /\ IsStripOf(output[i].text, subs[i].content)
              /\ SameTimes(output[i], subs[i])
              /\ AboutLine(output[i], output[i].text)

C7_Witness ==
    /\ pc = "enrich_loop"
    /\ Len(output) = 2
    /\ output[1].translation = JStr("")
    /\ output[2].translation = JStr("t ZJ")
    /\ how = "decoded"

ScoreOfWord(w) == freq_get(scored.scores, w, 0)

\* C8: map_frequency_to_scores is monotone: a word with a larger count has a
\* score at least as large, and the scores never increase along the
\* descending-count order.
C8_ScoresMonotone ==
    spc = "scored" =>
        /\ \A i, j \in 1..Len(table) :
              table[i].v > table[j].v
                  => ScoreOfWord(table[i].k) >= ScoreOfWord(table[j].k)
        /\ \A r \in 1..(Len(scored.scores) - 1) :
              /\ scored.scores[r].v >= scored.scores[r + 1].v
              /\ freq_get(table, scored.scores[r].k, 0)
                    >= freq_get(table, scored.scores[r + 1].k, 0)

C8_Witness ==
    /\ spc = "scored"
    /\ Len(table) = 3
    /\ table[1].v < table[2].v
    /\ ScoreOfWord(table[1].k) < ScoreOfWord(table[2].k)
    /\ table[3].v = table[1].v
    /\ ScoreOfWord(table[3].k) < ScoreOfWord(table[1].k)

\* C9: map_frequency_to_scores of the empty table is the empty table, and
\* nothing is raised.
C9_EmptyTableEmptyScores ==
    (spc = "scored" /\ table = <<>>) =>
        /\ ~scored.raised
        /\ scored.scores = <<>>

C9_Witness ==
    /\ spc = "scored"
    /\ table = <<>>
    /\ ~scored.raised

\* occurrences of w as the word of a segment of the lines of data
OccInSegments(segs, w) ==
    Cardinality({ k \in 1..Len(segs) :
        segs[k].t = "obj" /\ dict_get(segs[k], "word", JNull) = JStr(w) })

RECURSIVE OccInLines(_, _, _)
OccInLines(lines, n, w) ==
    IF n = 0 THEN 0
    ELSE LET seg == IF lines[n].t = "obj"
                    THEN dict_get(lines[n], "segmented", JNull) ELSE JNull
         IN  (IF seg.t = "list" THEN OccInSegments(seg.items, w) ELSE 0)
             + OccInLines(lines, n - 1, w)

\* occurrences of w over the lines of the artifacts files[1..n]
RECURSIVE Occurrences(_, _, _)
Occurrences(files, n, w) ==
    IF n = 0 THEN 0
    ELSE LET data == json_loads(files[n])
         IN  (IF data.ok /\ data.val.t = "list"
              THEN OccInLines(data.val.items, Len(data.val.items), w) ELSE 0)
             + Occurrences(files, n - 1, w)

CorpusWords == {"NH", "ZJ", "NH3", "ab", "123"}

\* C10: the table build_word_frequency_corpus returns holds, for every word,
\* the number of its eligible occurrences over all lines of all artifacts of
\* the directory, whatever an earlier run returned.
C10_ExactCounts ==
    fpc = "built" =>
        /\ Keys(frequency_dict) \subseteq CorpusWords
        /\ \A w \in CorpusWords :
              freq_get(frequency_dict, w, 0)
                  = IF is_chinese_word(w) THEN Occurrences(corpus, Len(corpus), w) ELSE 0

\* a token of the target script: one of its characters is a Chinese character
HasChineseChar(w) == \E i \in 1..Len(w) : CharAt(w, i) \in ChineseChars

\* C11: is_chinese_word(token) is true exactly when the token holds a
\* character of the Chinese script and is not made of digits only, so that no
\* token without a Chinese character is counted in the FrequencyTable.
C11_EligibleIffChineseScript ==
    fpc = "built" =>
        /\ \A w \in CorpusWords :
              Occurrences(corpus, Len(corpus), w) > 0 =>
                  (is_chinese_word(w) <=> (HasChineseChar(w) /\ ~isdigit(w)))
        /\ \A w \in Keys(frequency_dict) : HasChineseChar(w) /\ ~isdigit(w)

\* an artifact build_word_frequency_corpus scans without an exception
Readable(text) == ~count_files(<< text >>, 1, <<>>).raised

\* C12: an unreadable or malformed artifact is skipped alone: the table
\* returned holds the counts of every other artifact of the directory,
\* scanned before it or after it.
C12_OnlyBadArtifactSkipped ==
    fpc = "built" =>
        frequency_dict = build_word_frequency_corpus(SelectSeq(corpus, Readable))

\* what the first pass, get_ai_analysis itself, returned for the response
Returned == Len(records) >= 1

C14_CleanUpIdempotent ==
    (Len(contents) >= 2 /\ records[1].how = "decoded") =>
        /\ contents[2] = contents[1]
        /\ records[2].data = records[1].data

\* C15: a record wrapped in a fenced code block, with the language tag or
\* without it, decodes to that record.
C15_FenceStripped ==
    Returned =>
        \A l \in Lines :
            response.text \in { "^^^json\n" \o GoodText(l) \o "\n^^^",
                                "^^^\n" \o GoodText(l) \o "\n^^^" } =>
                /\ records[1].how = "decoded"
                /\ records[1].data = json_loads(GoodText(l)).val

\* the sum of the counts of table[1..n]
RECURSIVE TotalOf(_)
TotalOf(n) == IF n = 0 THEN 0 ELSE table[n].v + TotalOf(n - 1)

\* the entries walked up to entry i by descending count: the larger counts,
\* and the equal ones inserted no later
WalkedAt(i) ==
    { j \in 1..Len(table) :
        table[j].v > table[i].v \/ (table[j].v = table[i].v /\ j <= i) }

\* the running sum S once entry i is added, as the total less the rest
RECURSIVE RestOf(_, _)
RestOf(i, n) ==
    IF n = 0 THEN 0
    ELSE (IF n \in WalkedAt(i) THEN 0 ELSE table[n].v) + RestOf(i, n - 1)

RunningSumAt(i) == TotalOf(Len(table)) - RestOf(i, Len(table))

\* the tier of the share S / T: 5 up to 0.60, 4 up to 0.80, 3 up to 0.90,
\* 2 up to 0.97, else 1
TierOf(S, T) ==
    IF S * 100 <= 60 * T THEN 5
    ELSE IF S * 100 <= 80 * T THEN 4
    ELSE IF S * 100 <= 90 * T THEN 3
    ELSE IF S * 100 <= 97 * T THEN 2
    ELSE 1

\* C16: each word has the tier of its cumulative share, the running sum
\* S of the walk by descending count including the word's own count.
C16_TierOfCumulativeShare ==
    spc = "scored" =>
        /\ ~scored.raised
        /\ \A i \in 1..Len(table) :
              ScoreOfWord(table[i].k)
                  = TierOf(RunningSumAt(i), TotalOf(Len(table)))

C16_Witness ==
    /\ spc = "scored"
    /\ Len(table) = 3
    /\ table[2].v * 100 = 60 * TotalOf(3)
    /\ table[1].v = table[3].v
    /\ ScoreOfWord(table[2].k) = 5
    /\ ScoreOfWord(table[1].k) = 4
    /\ ScoreOfWord(table[3].k) = 1

\* the place of word w in the result
PlaceOf(w) == CHOOSE r \in 1..Len(scored.scores) : scored.scores[r].k = w

CapN == CHOOSE m \in MAX_LINES : TRUE

\* C18: with MAX_LINES set to N, a backend call is issued only for a cue
\* among the first min(N, total), and the output saved holds the
\* EnrichedLines of exactly those cues, in order.
C18_CapProcessesFirstN ==
    [][ MAX_LINES # {} =>
          /\ calls' # calls =>
                /\ idx < Min(CapN, Len(subs))
                /\ line' = strip(subs[idx + 1].content)
          /\ (pc = "enrich_loop" /\ pc' = "main_loop") =>
                /\ Len(output) = Min(CapN, Len(subs))
                /\ artifacts'[output_path] = output
                /\ \A i \in 1..Len(output) :
                      /\ IsStripOf(output[i].text, subs[i].content)
                      /\ SameTimes(output[i], subs[i]) ]_vars

C18_Witness ==
    /\ MAX_LINES = {1}
    /\ pc = "enrich_loop"
    /\ Len(subs) = 2
    /\ idx = 1
    /\ Len(output) = 1
    /\ calls = 1

\* C19: on a file with zero cues enrich_subtitles issues no backend call,
\* raises nothing and persists the artifact, holding the empty sequence.
C19_ZeroCuesStillPersisted ==
    [][ (pc = "enrich_loop" /\ Len(subs) = 0) =>
          /\ pc' = "main_loop"
          /\ error' = "none"
          /\ exit_status' = {}
          /\ calls' = calls
          /\ output_path \in DOMAIN artifacts'
          /\ artifacts'[output_path] = <<>> ]_vars

C19_Witness ==
    /\ MAX_LINES = {}
    /\ pc = "main_loop"
    /\ fidx = 2
    /\ calls = 0
    /\ DOMAIN artifacts = {output_path_of(infer_media_name_from_path(filenames[1]))}
    /\ \A p \in DOMAIN artifacts : artifacts[p] = <<>>

\* C20: an absent input directory ends the run with a non-zero exit status
\* and no file processed; an absent listed file is skipped alone, nothing
\* being written for it, and the loop goes on with the files that remain.
C20_InputMissingHandling ==
    /\ [][ /\ (pc = "main_start" /\ pc' = "exited") =>
                /\ exit_status' = {1}
                /\ calls' = 0
                /\ DOMAIN artifacts' = {}
           /\ (MainSkipMissing \/ EnrichSkip) =>
                /\ pc' = "main_loop"
                /\ fidx' = fidx + 1
                /\ artifacts' = artifacts
                /\ calls' = calls
                /\ exit_status' = {}
                /\ error' = "none" ]_vars
    /\ []((pc = "exited" /\ exit_status = {0}) => fidx = Len(filenames) + 1)

C20_Witness ==
    /\ pc = "main_loop"
    /\ filenames = << "a.srt", "b.chi.srt" >>
    /\ fidx = 3
    /\ calls >= 1
    /\ DOMAIN artifacts = {output_path_of(infer_media_name_from_path("b.chi.srt"))}

(***************************************************************************)
(* C21: every frequency-build run overwrites both cache artifacts with the *)
(* tables of that run, also when the run found no eligible word: after a   *)
(* run the cache holds the current frequency table, and the score table    *)
(* has the same keys.                                                      *)
(***************************************************************************)
C21_CacheOverwrittenEveryRun ==
    (fpc = "start" /\ runs >= 1) =>
        /\ cache # <<>>
        /\ cache[1].frequency = frequency_dict
        /\ Keys(cache[1].scores) = Keys(cache[1].frequency)

(***************************************************************************)
(* C22: enrich_subtitles terminates whatever the backend does, a call that *)
(* never returns included, because each call is suspended only until the   *)
(* worker finishes or the deadline fires.  As a property of finite runs:   *)
(* in every state where a backend call is outstanding the main thread can  *)
(* still go on by itself (the deadline is yet to fire); it is never left   *)
(* with the return of the backend call as its only way forward.            *)
(***************************************************************************)
C22_NeverWaitsOnBackendAlone ==
    (pc \in {"ai_wait", "ai_shutdown"} /\ worker = "running") => pc = "ai_wait"

(***************************************************************************)
(* C23: at most one backend worker is outstanding at any time, a worker    *)
(* whose deadline has expired included.  A worker exists only while        *)
(* get_ai_analysis is being executed; the call for the next cue (or for    *)
(* the first cue of the next file) starts only when no worker is left and  *)
(* when the EnrichedLine of every earlier cue of the file has been         *)
(* appended.                                                               *)
(***************************************************************************)
C23_OneWorkerOutstanding ==
    /\ [](worker # "idle" => pc \in {"ai_wait", "ai_shutdown"})
    /\ [][ calls' # calls =>
              /\ worker = "idle"
              /\ worker' = "running"
              /\ Len(output) = idx
              /\ line' = strip(subs[idx + 1].content) ]_vars

\* the call for the second cue is in flight; the first cue's call is over and
\* its line (an empty one, as after a timeout) has been appended
C23_Witness ==
    /\ pc = "ai_wait"
    /\ worker = "running"
    /\ idx = 1
    /\ Len(output) = 1
    /\ EmptyFields(output[1])
    /\ calls = 2

(***************************************************************************)
(* C24: once the deadline of a call has expired, what its worker returns   *)
(* later is discarded.  From the deadline on no step changes the appended  *)
(* lines or the artifacts, get_ai_analysis returns the empty record and    *)
(* keeps nothing of the future; the line appended for that cue has empty   *)
(* fields and the lines before it are as they were.                        *)
(***************************************************************************)
C24_LateResultDiscarded ==
    /\ [][ pc = "ai_shutdown" =>
              /\ output' = output
              /\ artifacts' = artifacts
              /\ pc' # "ai_shutdown" =>
                    (ai_data' = EmptyAnalysis /\ future' = NoFuture) ]_vars
    /\ [][ (pc = "enrich_got" /\ how = "timeout" /\ pc' = "enrich_loop") =>
              /\ EmptyFields(output'[idx'])
              /\ SubSeq(output', 1, idx) = output ]_vars

\* the second cue's call ran into the deadline and its worker returned
\* LateBy seconds after it; the first cue's line holds its analysis still
C24_Witness ==
    /\ Appended
    /\ how = "timeout"
    /\ elapsed = TIMEOUT_SECONDS + LateBy
    /\ idx = 2
    /\ EmptyFields(output[2])
    /\ ~EmptyFields(output[1])

\* get_ai_analysis is being executed, or has just returned to the loop body
InCall == pc \in {"ai_wait", "ai_shutdown", "enrich_got"}

(***************************************************************************)
(* C25: get_ai_analysis makes exactly one backend call per invocation and  *)
(* never retries, so the backend calls of a run are as many as the cues    *)
(* processed.  A call is made exactly where get_ai_analysis is entered for *)
(* the next cue; until that cue's line is appended no further call is      *)
(* made, whatever the outcome (timeout, failure, undecodable text); in the *)
(* first file of the listing the calls made are the cues appended, plus    *)
(* the one for the cue in hand.                                            *)
(***************************************************************************)
C25_OneCallPerCue ==
    /\ [][ calls' # calls <=> (pc = "enrich_loop" /\ pc' = "ai_wait") ]_vars
    /\ [][ calls' # calls =>
              (calls' = calls + 1 /\ idx' = idx /\ AI_SERVICE \in Services) ]_vars
    /\ [][ InCall => calls' = calls ]_vars
    /\ []( (fidx = 1 /\ (InCall \/ pc = "enrich_loop")) =>
              calls = idx + (IF InCall THEN 1 ELSE 0) )

\* two cues processed with two calls, the first of which failed
C25_Witness ==
    /\ pc = "enrich_loop"
    /\ idx = 2
    /\ calls = 2
    /\ EmptyFields(output[1])
    /\ ~EmptyFields(output[2])

\* the files of the listing whose artifact is p
InputsOf(p) ==
    { r \in 1..Len(FileOrder) :
        output_path_of(infer_media_name_from_path(FileOrder[r])) = p }

(***************************************************************************)
(* C26: two inputs whose names normalize to the same output name are both  *)
(* processed, no collision being detected.  Each save replaces the whole   *)
(* artifact by the output of the file just processed and leaves the other  *)
(* artifacts alone, so an artifact always holds the lines of one input of  *)
(* that name, the one processed last, never a mixture of two.              *)
(***************************************************************************)
C26_LastWriterWins ==
    /\ [][ (pc = "enrich_loop" /\ pc' = "main_loop") =>
              /\ DOMAIN artifacts' = DOMAIN artifacts \cup {output_path}
              /\ artifacts'[output_path] = output
              /\ \A p \in DOMAIN artifacts \ {output_path} :
                    artifacts'[p] = artifacts[p] ]_vars
    /\ [][ artifacts' # artifacts => (pc = "enrich_loop" /\ pc' = "main_loop") ]_vars
    /\ [](\A p \in DOMAIN artifacts :
             \E r \in InputsOf(p) :
                \A i \in 1..Len(artifacts[p]) :
                   SameTimes(artifacts[p][i], CueOf(r, i)))

\* a.srt and a.txt, one cue each, have both been processed: the one artifact
\* of the run holds the line of a.txt
C26_Witness ==
    /\ filenames = << "a.srt", "a.txt" >>
    /\ pc = "main_loop"
    /\ fidx = 3
    /\ calls = 2
    /\ DOMAIN artifacts = {"a.enriched.json"}
    /\ Len(artifacts["a.enriched.json"]) = 1
    /\ SameTimes(artifacts["a.enriched.json"][1], CueOf(FileRank("a.txt"), 1))
    /\ ~SameTimes(artifacts["a.enriched.json"][1], CueOf(FileRank("a.srt"), 1))

(***************************************************************************)
(* C27: the clean-up never alters a response that is valid JSON text with  *)
(* no fence: the record get_ai_analysis returns is the direct decode of    *)
(* the raw text, also where a string value holds a comma followed by       *)
(* optional whitespace and a closing bracket or brace.                     *)
(***************************************************************************)
C27_ValidTextDecodedAsIs ==
    ( /\ Returned
      /\ ~startswith(strip(response.text), "^^^")
      /\ json_loads(response.text).ok ) =>
        /\ records[1].how = "decoded"
        /\ records[1].data = json_loads(response.text).val

\* the largest count of the table is more than 60% of the total
TopWordDominates ==
    \E i \in 1..Len(table) : table[i].v * 100 > BP5 * TotalOf(Len(table))

(***************************************************************************)
(* C28: for every non-empty table of positive counts the word ranked last  *)
(* has score 1 (its cumulative share is 1), so some word has score 1 and   *)
(* the word of a one-word table has score 1; and no word has score 5 where *)
(* the most frequent word alone is more than 60% of the total.             *)
(***************************************************************************)
C28_LastRankedScoresOne ==
    (spc = "scored" /\ Len(table) >= 1) =>
        /\ ~scored.raised
        /\ Len(scored.scores) = Len(table)
        /\ scored.scores[Len(table)].v = 1
        /\ \E w \in Keys(table) : ScoreOfWord(w) = 1
        /\ Len(table) = 1 => ScoreOfWord(table[1].k) = 1
        /\ TopWordDominates => \A w \in Keys(table) : ScoreOfWord(w) # 5

\* three words, the first with more than 60% of the total: scores 4, 3, 1
C28_Witness ==
    /\ spc = "scored"
    /\ Len(table) = 3
    /\ TopWordDominates
    /\ scored.scores[1].v = 4
    /\ scored.scores[2].v = 3
    /\ scored.scores[3].v = 1

(***************************************************************************)
(* C29: every table build_word_frequency_corpus returns has counts of at   *)
(* least 1 and only keys that is_chinese_word accepts; main gives the      *)
(* mapper non-empty tables only, so the total T is positive whenever the   *)
(* mapper is invoked and the division never fails.                         *)
(***************************************************************************)
C29_TotalPositiveInMain ==
    /\ [](fpc = "built" =>
            \A i \in 1..Len(frequency_dict) :
                /\ frequency_dict[i].v >= 1
                /\ is_chinese_word(frequency_dict[i].k))
    /\ [][ (fpc = "built" /\ fpc' # "built") =>
              \/ frequency_dict = <<>> /\ score_dict' = score_dict
              \/ /\ sum_counts(frequency_dict, Len(frequency_dict)) > 0
                 /\ ~map_frequency_to_scores(frequency_dict).raised
                 /\ score_dict' = map_frequency_to_scores(frequency_dict).scores ]_vars
    /\ [](fpc # "failed")

\* the second run of main has mapped a table of two words, NH counted more
\* than once
C29_Witness ==
    /\ fpc = "start"
    /\ runs = 2
    /\ Len(frequency_dict) = 2
    /\ freq_get(frequency_dict, "NH", 0) >= 2
    /\ Len(score_dict) = 2
    /\ cache # <<>>
    /\ cache[1].scores = score_dict

\* the kinds of the requests made so far, in order
Ops == [i \in 1..Len(requests_made) |-> requests_made[i].op]

\* the search whose result the PATCH works on
LastSearch == IF "import" \in { Ops[i] : i \in 1..Len(Ops) } THEN search_again ELSE search_result

(***************************************************************************)
(* C30: update_word_status_by_characters makes its requests in the order   *)
(* search, import, second search, PATCH.  The import is made at most once  *)
(* and only after a first search that failed or found nothing; the PATCH   *)
(* is made at most once, last, and with the id of the first card of the    *)
(* latest search result; both searches and the import are for the given    *)
(* characters.  In the result returned, updated is true exactly where the  *)
(* PATCH was made and succeeded, and imported is true only where an import *)
(* was made and succeeded.                                                 *)
(***************************************************************************)
C30_SearchImportSearchPatch ==
    /\ Ops \in { <<>>, << "search" >>, << "search", "patch" >>,
                 << "search", "import" >>, << "search", "import", "search" >>,
                 << "search", "import", "search", "patch" >> }
    /\ \A i \in 1..Len(Ops) :
          /\ Ops[i] \in {"search", "import"} => requests_made[i].arg = JStr(characters)
          /\ Ops[i] = "import" => ~first_of(search_result).found
          /\ Ops[i] = "patch" =>
                /\ first_of(LastSearch).found
                /\ requests_made[i].arg = dict_get(first_of(LastSearch).card, "pk", JNull)
                /\ truthy(requests_made[i].arg)
                /\ requests_made[i].data =
                       {[status |-> status, extended_status |-> extended_status]}
    /\ lpc = "returned" =>
          \E r \in returned :
             /\ returned = {r}
             /\ r.updated <=> (Len(Ops) >= 1 /\ Ops[Len(Ops)] = "patch" /\ patch_result.success)
             /\ r.imported => (Len(Ops) >= 2 /\ Ops[2] = "import" /\ import_result.success)
             /\ r.success <=> r.updated
    /\ lpc # "returned" => returned = {}

\* the word was not found, was imported, found by the second search and
\* patched: four requests, updated and imported both true
C30_Witness ==
    /\ lpc = "returned"
    /\ Ops = << "search", "import", "search", "patch" >>
    /\ returned = {Result(TRUE, TRUE, TRUE, JNum(8))}
    /\ search_result.success
    /\ search_result.count = JNum(0)

=============================================================================
